---------------------------- MODULE Spec2Model ----------------------------
(***************************************************************************)
(* keymacro (src/src/lib.rs): keep!, Defer, deferred!, defer!, text!.      *)
(*                                                                         *)
(* The macros are modelled by what they expand to, the expansions are run  *)
(* by a small interpreter of the block they are written in: a block owns   *)
(* its `let` bindings and drops them in reverse declaration order when it  *)
(* is left (fall-through, early return or unwinding); a temporary that is  *)
(* not bound (an expression statement, a `let _ = ...`) is dropped at the  *)
(* end of its statement. Drop::drop of Defer is modelled step by step:     *)
(* take(), the `if let`, the call of the closure.                          *)
(*                                                                         *)
(* Two blocks are run, one after the other: "kw" is a block whose          *)
(* statements are drawn freely (defer! { .. }, let _defer = deferred!      *)
(* { .. }, Rc::clone(&rc), keep!(Rc::clone(&rc))) and recorded in `prog`;  *)
(* "ctor" is the same block with every defer! { b } rewritten to           *)
(* let _defer = deferred! { b }.  Each block records what it lets an       *)
(* observer see in `trace`.                                                *)
(*                                                                         *)
(* Strings are sequences of one-character strings.                         *)
(***************************************************************************)
EXTENDS Integers, Sequences, FiniteSets, TLC

\* Bounds of the model.
MaxStmts == 3      \* statements written in a block
MaxRedrops == 1    \* extra invocations of Drop::drop (SpecRedrop only)
MaxLits == 3       \* literals handed to text!
MaxLitLen == 1     \* characters of one literal

VARIABLES
  pc,         \* per block: "body", "drop", "taken", "action", "exit", "left", "aborted"
  exitpath,   \* per block: "none", "fallthrough", "return", "unwind"
  locals,     \* per block: the bindings the block owns, in declaration order
  guards,     \* per block: guard id -> the Defer struct [deferred: Option<F>]
  strong,     \* per block: Rc::strong_count(&rc)
  log,        \* per block: the markers the deferred closures have written
  calls,      \* per block: guard id -> how often its closure was invoked
  teardowns,  \* per block: guard id -> how often Drop::drop was entered on it
  cur,        \* per block: the value being dropped
  ret,        \* per block: where control goes when the current drop returns
  taken,      \* per block: the local `deferred` of Drop::drop (result of take())
  panicking,  \* per block: a panic is propagating
  failed,     \* per block: ids of the guards whose closure panicked
  ip,         \* per block: statements executed so far
  trace,      \* per block: the observable events, in order
  prog,       \* the statements of the block, as "kw" wrote them
  how,        \* how "kw" left its body ("none" while it has not)
  redrops,    \* extra invocations of Drop::drop made so far
  lits,       \* text!: the literals of the invocation
  expansion,  \* text!: what the invocation expanded to
  out,        \* text!: the value of the expansion
  tpc         \* text!: "src", "expanded", "evaluated"

vars == <<pc, exitpath, locals, guards, strong, log, calls, teardowns, cur, ret,
          taken, panicking, failed, ip, trace, prog, how, redrops,
          lits, expansion, out, tpc>>

scopeVars == <<pc, exitpath, locals, guards, strong, log, calls, teardowns, cur,
               ret, taken, panicking, failed, ip, trace, prog, how, redrops>>

textVars == <<lits, expansion, out, tpc>>

Scopes == {"kw", "ctor"}

-----------------------------------------------------------------------------
(* Option<F> and the Defer struct *)

None == [tag |-> "None"]

Some(f) == [tag |-> "Some", val |-> f]

\* Mutant of OptionTake: the slot is read (as_ref), not emptied.
OptionTake_asref(slot) == [self |-> slot, result |-> slot]

\* Option::take: leaves None in the slot and returns what was there.
OptionTake(slot) == [self |-> None, result |-> slot]

\* Mutant of DeferNew: the guard is built with an empty slot.
DeferNew_disarmed(deferred) == [deferred |-> None]

\* Defer::new
DeferNew(deferred) == [deferred |-> Some(deferred)]

\* A closure `|| { .. }`: it writes its marker, and then panics if `fails`.
Closure(marker, fails) == [marker |-> marker, fails |-> fails]

-----------------------------------------------------------------------------
(* The macros, as token rewriting *)

\* The expression Rc::clone(&rc) of the keep! doc test.
RcClone == [op |-> "Rc::clone"]

\* Mutant of ExpandKeep: keep!($value) => let _ = $value;
ExpandKeep_underscore(value) == [op |-> "let", name |-> "_", init |-> value]

\* Mutant of ExpandKeep: keep!($value) => $value;
ExpandKeep_stmt(value) == [op |-> "expr", init |-> value]

\* keep!($value) => let _keeped = $value;
ExpandKeep(value) == [op |-> "let", name |-> "_keeped", init |-> value]

\* deferred!($($token)*) => $crate::Defer::new(|| { $($token)* })
ExpandDeferred(body) == [op |-> "Defer::new", f |-> body]

\* Mutant of ExpandDefer: defer!($($token)*) => $crate::deferred!($($token)*);
ExpandDefer_bare(body) == [op |-> "expr", init |-> ExpandDeferred(body)]

\* defer!($($token)*) => $crate::keep!($crate::deferred!($($token)*));
ExpandDefer(body) == ExpandKeep(ExpandDeferred(body))

\* let _defer = deferred! { .. };   (the deferred! doc test)
LetDeferred(body) == [op |-> "let", name |-> "_defer", init |-> ExpandDeferred(body)]

\* An expression statement `e;`.
ExprStmt(e) == [op |-> "expr", init |-> e]

\* The statements as written, before expansion.
SrcDefer(body) == [src |-> "defer!", body |-> body]

SrcLetDeferred(body) == [src |-> "let deferred!", body |-> body]

SrcClone == [src |-> "Rc::clone"]

SrcKeepClone == [src |-> "keep! Rc::clone"]

\* The block "ctor" is "kw" with defer! { b } written as let _defer = deferred! { b }.
Rewrite(stmt) == IF stmt.src = "defer!" THEN SrcLetDeferred(stmt.body) ELSE stmt

-----------------------------------------------------------------------------
(* The block *)

Done(s) == pc[s] \in {"left", "aborted"}

\* "ctor" runs once "kw" is over.
Active(s) == s = "kw" \/ Done("kw")

EmptyFn == [g \in {} |-> 0]

ScopeInit ==
  /\ pc = [s \in Scopes |-> "body"]
  /\ exitpath = [s \in Scopes |-> "none"]
  /\ locals = [s \in Scopes |-> <<>>]
  /\ guards = [s \in Scopes |-> EmptyFn]
  /\ strong = [s \in Scopes |-> 1]
  /\ log = [s \in Scopes |-> <<>>]
  /\ calls = [s \in Scopes |-> EmptyFn]
  /\ teardowns = [s \in Scopes |-> EmptyFn]
  /\ cur = [s \in Scopes |-> [ty |-> "none", id |-> 0]]
  /\ ret = [s \in Scopes |-> "body"]
  /\ taken = [s \in Scopes |-> None]
  /\ panicking = [s \in Scopes |-> FALSE]
  /\ failed = [s \in Scopes |-> {}]
  /\ ip = [s \in Scopes |-> 0]
  /\ trace = [s \in Scopes |-> <<>>]
  /\ prog = <<>>
  /\ how = "none"
  /\ redrops = 0

Init ==
  /\ ScopeInit
  /\ lits = <<>>
  /\ expansion = [kind |-> "none"]
  /\ out = <<>>
  /\ tpc = "src"

\* The statement `src` is the next one of block s: "kw" writes it, "ctor" finds it
\* (rewritten) at its place in what "kw" wrote.
Offered(s, src) ==
  /\ Active(s)
  /\ pc[s] = "body"
  /\ IF s = "kw"
       THEN ip[s] < MaxStmts /\ prog' = Append(prog, src)
       ELSE ip[s] < Len(prog) /\ Rewrite(prog[ip[s] + 1]) = src /\ prog' = prog

\* A statement of the expanded block: the initialiser is evaluated; a `let` with a
\* name binds the value in the block, an expression statement and `let _` leave a
\* temporary, which is dropped at the end of the statement.
ExecStmt(s, st) ==
  LET idx == ip[s] + 1
      isNew == st.init.op = "Defer::new"
      val == [ty |-> IF isNew THEN "Defer" ELSE "Rc", id |-> idx]
      binds == st.op = "let" /\ st.name # "_"
  IN  /\ ip' = [ip EXCEPT ![s] = idx]
      /\ trace' = [trace EXCEPT ![s] = Append(@, <<"stmt">>)]
      /\ guards' = [guards EXCEPT ![s] =
                      IF isNew THEN (idx :> DeferNew(st.init.f)) @@ @ ELSE @]
      /\ calls' = [calls EXCEPT ![s] = IF isNew THEN (idx :> 0) @@ @ ELSE @]
      /\ teardowns' = [teardowns EXCEPT ![s] = IF isNew THEN (idx :> 0) @@ @ ELSE @]
      /\ strong' = [strong EXCEPT ![s] = IF isNew THEN @ ELSE @ + 1]
      /\ locals' = [locals EXCEPT ![s] =
                      IF binds THEN Append(@, [name |-> st.name, val |-> val]) ELSE @]
      /\ cur' = [cur EXCEPT ![s] = IF binds THEN @ ELSE val]
      /\ ret' = [ret EXCEPT ![s] = IF binds THEN @ ELSE "body"]
      /\ pc' = [pc EXCEPT ![s] = IF binds THEN "body" ELSE "drop"]
      /\ UNCHANGED <<exitpath, log, taken, panicking, failed, how, redrops>>
      /\ UNCHANGED textVars

\* defer! { body }
StmtDefer(s) ==
  \E fails \in BOOLEAN :
    LET body == Closure(ip[s] + 1, fails)
    IN  Offered(s, SrcDefer(body)) /\ ExecStmt(s, ExpandDefer(body))

\* let _defer = deferred! { body };
StmtLetDeferred(s) ==
  \E fails \in BOOLEAN :
    LET body == Closure(ip[s] + 1, fails)
    IN  Offered(s, SrcLetDeferred(body)) /\ ExecStmt(s, LetDeferred(body))

\* Rc::clone(&rc);
StmtClone(s) == Offered(s, SrcClone) /\ ExecStmt(s, ExprStmt(RcClone))

\* keep!(Rc::clone(&rc));
StmtKeepClone(s) == Offered(s, SrcKeepClone) /\ ExecStmt(s, ExpandKeep(RcClone))

\* Control leaves the body by `path`; the bindings are then dropped.
LeaveBody(s, path) ==
  /\ Active(s)
  /\ pc[s] = "body"
  /\ IF s = "kw" THEN how' = path ELSE ip[s] = Len(prog) /\ how = path /\ how' = how
  /\ pc' = [pc EXCEPT ![s] = "exit"]
  /\ exitpath' = [exitpath EXCEPT ![s] = path]
  /\ panicking' = [panicking EXCEPT ![s] = (path = "unwind")]
  /\ trace' = [trace EXCEPT ![s] = Append(@, <<"exit", path>>)]
  /\ UNCHANGED <<locals, guards, strong, log, calls, teardowns, cur, ret, taken,
                 failed, ip, prog, redrops>>
  /\ UNCHANGED textVars

\* The closing brace is reached.
BlockEnd(s) == LeaveBody(s, "fallthrough")

\* return;
EarlyReturn(s) == LeaveBody(s, "return")

\* A statement of the body panics.
BodyPanic(s) == LeaveBody(s, "unwind")

\* Leaving the block: the binding declared last is dropped next.
ScopeExitNext(s) ==
  /\ pc[s] = "exit"
  /\ locals[s] # <<>>
  /\ cur' = [cur EXCEPT ![s] = locals[s][Len(locals[s])].val]
  /\ locals' = [locals EXCEPT ![s] = SubSeq(@, 1, Len(@) - 1)]
  /\ ret' = [ret EXCEPT ![s] = "exit"]
  /\ pc' = [pc EXCEPT ![s] = "drop"]
  /\ UNCHANGED <<exitpath, guards, strong, log, calls, teardowns, taken, panicking,
                 failed, ip, trace, prog, how, redrops>>
  /\ UNCHANGED textVars

\* Every binding is dropped: the block is left, by unwinding if a panic propagates.
ScopeLeft(s) ==
  /\ pc[s] = "exit"
  /\ locals[s] = <<>>
  /\ pc' = [pc EXCEPT ![s] = "left"]
  /\ trace' = [trace EXCEPT ![s] = Append(@, <<"left", panicking[s]>>)]
  /\ UNCHANGED <<exitpath, locals, guards, strong, log, calls, teardowns, cur, ret,
                 taken, panicking, failed, ip, prog, how, redrops>>
  /\ UNCHANGED textVars

\* Dropping a clone of the Rc decrements the strong count.
DropRc(s) ==
  /\ pc[s] = "drop"
  /\ cur[s].ty = "Rc"
  /\ strong' = [strong EXCEPT ![s] = @ - 1]
  /\ pc' = [pc EXCEPT ![s] = ret[s]]
  /\ cur' = [cur EXCEPT ![s] = [ty |-> "none", id |-> 0]]
  /\ UNCHANGED <<exitpath, locals, guards, log, calls, teardowns, ret, taken,
                 panicking, failed, ip, trace, prog, how, redrops>>
  /\ UNCHANGED textVars

-----------------------------------------------------------------------------
(* Drop::drop of Defer *)

\* Mutant of DropTake: `if let Some(deferred) = &self.deferred`, the slot keeps
\* the closure.
DropTake_keep(s) ==
  /\ pc[s] = "drop"
  /\ cur[s].ty = "Defer"
  /\ taken' = [taken EXCEPT ![s] = guards[s][cur[s].id].deferred]
  /\ teardowns' = [teardowns EXCEPT ![s][cur[s].id] = @ + 1]
  /\ pc' = [pc EXCEPT ![s] = "taken"]
  /\ UNCHANGED <<exitpath, locals, guards, strong, log, calls, cur, ret, panicking,
                 failed, ip, trace, prog, how, redrops>>
  /\ UNCHANGED textVars

\* self.deferred.take()
DropTake(s) ==
  /\ pc[s] = "drop"
  /\ cur[s].ty = "Defer"
  /\ LET g == cur[s].id
         t == OptionTake(guards[s][g].deferred)
     IN  /\ guards' = [guards EXCEPT ![s][g].deferred = t.self]
         /\ taken' = [taken EXCEPT ![s] = t.result]
         /\ teardowns' = [teardowns EXCEPT ![s][g] = @ + 1]
  /\ pc' = [pc EXCEPT ![s] = "taken"]
  /\ UNCHANGED <<exitpath, locals, strong, log, calls, cur, ret, panicking, failed,
                 ip, trace, prog, how, redrops>>
  /\ UNCHANGED textVars

\* Mutant of DropIfLet: the closure is not called while a panic propagates
\* (`if !panicking { deferred(); }`).
DropIfLet_unless_panicking(s) ==
  /\ pc[s] = "taken"
  /\ IF taken[s].tag = "Some" /\ ~panicking[s]
       THEN /\ calls' = [calls EXCEPT ![s][cur[s].id] = @ + 1]
            /\ pc' = [pc EXCEPT ![s] = "action"]
            /\ cur' = cur
            /\ taken' = taken
       ELSE /\ calls' = calls
            /\ pc' = [pc EXCEPT ![s] = ret[s]]
            /\ cur' = [cur EXCEPT ![s] = [ty |-> "none", id |-> 0]]
            /\ taken' = [taken EXCEPT ![s] = None]
  /\ UNCHANGED <<exitpath, locals, guards, strong, log, teardowns, ret,
                 panicking, failed, ip, trace, prog, how, redrops>>
  /\ UNCHANGED textVars

\* Mutant of DropIfLet: the closure taken out of the slot is discarded, not called.
DropIfLet_forget(s) ==
  /\ pc[s] = "taken"
  /\ pc' = [pc EXCEPT ![s] = ret[s]]
  /\ cur' = [cur EXCEPT ![s] = [ty |-> "none", id |-> 0]]
  /\ taken' = [taken EXCEPT ![s] = None]
  /\ UNCHANGED <<exitpath, locals, guards, strong, log, calls, teardowns, ret,
                 panicking, failed, ip, trace, prog, how, redrops>>
  /\ UNCHANGED textVars

\* if let Option::Some(deferred) = .. { deferred(); }: when the pattern matches the
\* closure is called, otherwise drop returns.
DropIfLet(s) ==
  /\ pc[s] = "taken"
  /\ IF taken[s].tag = "Some"
       THEN /\ calls' = [calls EXCEPT ![s][cur[s].id] = @ + 1]
            /\ pc' = [pc EXCEPT ![s] = "action"]
            /\ cur' = cur
       ELSE /\ calls' = calls
            /\ pc' = [pc EXCEPT ![s] = ret[s]]
            /\ cur' = [cur EXCEPT ![s] = [ty |-> "none", id |-> 0]]
  /\ UNCHANGED <<exitpath, locals, guards, strong, log, teardowns, ret, taken,
                 panicking, failed, ip, trace, prog, how, redrops>>
  /\ UNCHANGED textVars

\* The closure runs to its end and drop returns.
ActionReturn(s) ==
  /\ pc[s] = "action"
  /\ ~taken[s].val.fails
  /\ log' = [log EXCEPT ![s] = Append(@, taken[s].val.marker)]
  /\ trace' = [trace EXCEPT ![s] = Append(@, <<"run", taken[s].val.marker>>)]
  /\ taken' = [taken EXCEPT ![s] = None]
  /\ cur' = [cur EXCEPT ![s] = [ty |-> "none", id |-> 0]]
  /\ pc' = [pc EXCEPT ![s] = ret[s]]
  /\ UNCHANGED <<exitpath, locals, guards, strong, calls, teardowns, ret, panicking,
                 failed, ip, prog, how, redrops>>
  /\ UNCHANGED textVars

\* Mutant of ActionPanic: drop catches the panic of the closure and returns.
ActionPanic_swallowed(s) ==
  /\ pc[s] = "action"
  /\ taken[s].val.fails
  /\ log' = [log EXCEPT ![s] = Append(@, taken[s].val.marker)]
  /\ trace' = [trace EXCEPT ![s] = Append(@, <<"run", taken[s].val.marker>>)]
  /\ failed' = [failed EXCEPT ![s] = @ \cup {cur[s].id}]
  /\ taken' = [taken EXCEPT ![s] = None]
  /\ cur' = [cur EXCEPT ![s] = [ty |-> "none", id |-> 0]]
  /\ pc' = [pc EXCEPT ![s] = ret[s]]
  /\ UNCHANGED <<exitpath, locals, guards, strong, calls, teardowns, ret, panicking,
                 ip, prog, how, redrops>>
  /\ UNCHANGED textVars

\* The closure panics part-way. drop has no handler: the panic leaves drop and
\* unwinds the block (the remaining bindings are dropped); a panic that leaves a
\* destructor while another panic is propagating aborts the process.
ActionPanic(s) ==
  /\ pc[s] = "action"
  /\ taken[s].val.fails
  /\ log' = [log EXCEPT ![s] = Append(@, taken[s].val.marker)]
  /\ failed' = [failed EXCEPT ![s] = @ \cup {cur[s].id}]
  /\ taken' = [taken EXCEPT ![s] = None]
  /\ cur' = [cur EXCEPT ![s] = [ty |-> "none", id |-> 0]]
  /\ IF panicking[s] \/ ret[s] = "left"
       THEN /\ pc' = [pc EXCEPT ![s] = "aborted"]
            /\ trace' = [trace EXCEPT ![s] =
                           @ \o << <<"run", taken[s].val.marker>>, <<"abort">> >>]
            /\ UNCHANGED <<panicking, exitpath>>
       ELSE /\ pc' = [pc EXCEPT ![s] = "exit"]
            /\ panicking' = [panicking EXCEPT ![s] = TRUE]
            /\ exitpath' = [exitpath EXCEPT ![s] =
                              IF ret[s] = "body" THEN "unwind" ELSE @]
            /\ trace' = [trace EXCEPT ![s] =
                           @ \o << <<"run", taken[s].val.marker>>, <<"panic">> >>]
  /\ UNCHANGED <<locals, guards, strong, calls, teardowns, ret, ip, prog, how,
                 redrops>>
  /\ UNCHANGED textVars

\* Drop::drop is invoked on a guard by something other than the block's own exit
\* (ptr::drop_in_place, ManuallyDrop::drop), possibly on a guard already dropped.
Redrop(s, g) ==
  /\ pc[s] \in {"body", "exit", "left"}
  /\ redrops < MaxRedrops
  /\ g \in DOMAIN guards[s]
  /\ redrops' = redrops + 1
  /\ cur' = [cur EXCEPT ![s] = [ty |-> "Defer", id |-> g]]
  /\ ret' = [ret EXCEPT ![s] = pc[s]]
  /\ pc' = [pc EXCEPT ![s] = "drop"]
  /\ UNCHANGED <<exitpath, locals, guards, strong, log, calls, teardowns, taken,
                 panicking, failed, ip, trace, prog, how>>
  /\ UNCHANGED textVars

Step(s) ==
  \/ StmtDefer(s)
  \/ StmtLetDeferred(s)
  \/ StmtClone(s)
  \/ StmtKeepClone(s)
  \/ BlockEnd(s)
  \/ EarlyReturn(s)
  \/ BodyPanic(s)
  \/ ScopeExitNext(s)
  \/ ScopeLeft(s)
  \/ DropRc(s)
  \/ DropTake(s)
  \/ DropIfLet(s)
  \/ ActionReturn(s)
  \/ ActionPanic(s)

Next == \E s \in Scopes : Step(s)

Spec == Init /\ [][Next]_vars

\* One block, on whose guards Drop::drop may be invoked once more.
NextRedrop == Step("kw") \/ \E g \in 1..MaxStmts : Redrop("kw", g)

SpecRedrop == Init /\ [][NextRedrop]_vars

-----------------------------------------------------------------------------
(* text! *)

\* The characters the literals are written with.
Chars == {"a", "b", "c", "\n"}

\* The string literals of at most MaxLitLen characters.
Literals == UNION {[1..n -> Chars] : n \in 0..MaxLitLen}

\* A string literal token and a character literal token.
StrLit(str) == [kind |-> "str", val |-> str]

CharLit(c) == [kind |-> "char", val |-> c]

\* $(, '\n', $more)* : each further literal is preceded by the character '\n'.
RECURSIVE Repetition(_)
Repetition(more) ==
  IF more = <<>> THEN <<>>
  ELSE <<CharLit("\n"), StrLit(Head(more))>> \o Repetition(Tail(more))

\* Mutant of TextRules: the separator follows every literal,
\* ($($line:literal)*) => concat!($($line, '\n'),*).
TextRules_trailing(literals) ==
  [kind |-> "concat!",
   args |-> [i \in 1..(2 * Len(literals)) |->
               IF i % 2 = 1 THEN StrLit(literals[(i + 1) \div 2]) ELSE CharLit("\n")]]

\* The two rules of text!: () => "", and
\* ($first:literal $($more:literal)*) => concat!($first $(, '\n', $more)*).
TextRules(literals) ==
  IF literals = <<>>
    THEN StrLit(<<>>)
    ELSE [kind |-> "concat!",
          args |-> <<StrLit(Head(literals))>> \o Repetition(Tail(literals))]

\* What concat! makes of one argument: a string literal gives its characters, a
\* character literal the character.
Stringify(token) == IF token.kind = "char" THEN <<token.val>> ELSE token.val

\* concat!: the arguments, stringified, end to end.
RECURSIVE ConcatArgs(_)
ConcatArgs(args) ==
  IF args = <<>> THEN <<>> ELSE Stringify(Head(args)) \o ConcatArgs(Tail(args))

\* The value of an expanded text! invocation.
Value(e) == IF e.kind = "concat!" THEN ConcatArgs(e.args) ELSE Stringify(e)

\* A text! invocation with up to MaxLits literals, not yet expanded.
InitText ==
  /\ ScopeInit
  /\ lits \in UNION {[1..n -> Literals] : n \in 0..MaxLits}
  /\ expansion = [kind |-> "none"]
  /\ out = <<>>
  /\ tpc = "src"

\* The compiler expands the invocation.
TextExpand ==
  /\ tpc = "src"
  /\ expansion' = TextRules(lits)
  /\ tpc' = "expanded"
  /\ UNCHANGED <<lits, out>>
  /\ UNCHANGED scopeVars

\* The expansion is evaluated.
TextEval ==
  /\ tpc = "expanded"
  /\ out' = Value(expansion)
  /\ tpc' = "evaluated"
  /\ UNCHANGED <<lits, expansion>>
  /\ UNCHANGED scopeVars

NextText == TextExpand \/ TextEval

SpecText == InitText /\ [][NextText]_vars

-----------------------------------------------------------------------------
(* Properties *)

\* The flag the closure of guard g sets: its marker has been written.
Changed(s, g) == \E i \in 1..Len(log[s]) : log[s][i] = g

\* The guards of block s, last created first.
ReverseCreation(s) ==
  LET ids == DOMAIN guards[s]
      n == Cardinality(ids)
  IN  CHOOSE q \in [1..n -> ids] : \A i \in 1..n, j \in 1..n : i < j => q[i] > q[j]

\* The clones of rc that block s has handed to keep! so far.
KeptClones(s) == Cardinality({i \in 1..ip[s] : prog[i].src = "keep! Rc::clone"})

IsPrefix(p, q) == Len(p) <= Len(q) /\ SubSeq(q, 1, Len(p)) = p

\* The literals joined with one newline between neighbours.
RECURSIVE JoinNewline(_)
JoinNewline(literals) ==
  IF literals = <<>> THEN <<>>
  ELSE IF Len(literals) = 1 THEN literals[1]
  ELSE literals[1] \o <<"\n">> \o JoinNewline(Tail(literals))

RECURSIVE TotalLen(_)
TotalLen(literals) ==
  IF literals = <<>> THEN 0 ELSE Len(Head(literals)) + TotalLen(Tail(literals))

\* C1: over any sequence of creations and teardowns, also with Drop::drop invoked a
\* second time on a guard, the closure of every guard is invoked at most once: not
\* before its guard is torn down, and exactly once as soon as a teardown of the
\* guard has passed its `if let`.
C1_InvokedExactlyOnce ==
  \A s \in Scopes : \A g \in DOMAIN guards[s] :
    /\ calls[s][g] <= 1
    /\ teardowns[s][g] = 0 => calls[s][g] = 0
    /\ (teardowns[s][g] >= 1 /\ ~(pc[s] = "taken" /\ cur[s].id = g)) => calls[s][g] = 1

\* A guard has been torn down twice, the second teardown is over, and its closure
\* was invoked once.
C1_Witness ==
  \E g \in DOMAIN guards["kw"] :
    /\ teardowns["kw"][g] = 2
    /\ pc["kw"] \notin {"drop", "taken", "action"}
    /\ calls["kw"][g] = 1

\* C2: building a guard does not run its closure; the flag the closure sets is
\* false in every state in which control has not begun to leave the block, and
\* true once the block has been left.
C2_FlagFalseInsideTrueAfter ==
  \A s \in Scopes : \A g \in DOMAIN guards[s] :
    /\ exitpath[s] = "none" => (~Changed(s, g) /\ calls[s][g] = 0)
    /\ pc[s] = "left" => Changed(s, g)

\* The doc test of deferred!: one guard, the block left at its closing brace, the
\* flag set.
C2_Witness ==
  /\ prog = <<SrcLetDeferred(Closure(1, FALSE))>>
  /\ how = "fallthrough"
  /\ pc["kw"] = "left"
  /\ Changed("kw", 1)

\* C3: guards created one after the other in a block (by defer!, which always
\* binds _keeped, or by let) do not fire before the block is being left, fire in
\* decreasing order of creation, and when the block has been left the markers
\* written are those of all its guards, last created first.
C3_ReverseCreationOrder ==
  \A s \in Scopes :
    /\ exitpath[s] = "none" => log[s] = <<>>
    /\ \A i \in 1..Len(log[s]), j \in 1..Len(log[s]) : i < j => log[s][i] > log[s][j]
    /\ pc[s] = "left" => log[s] = ReverseCreation(s)

\* Two defer! statements, the block left: the markers read [second, first].
C3_Witness ==
  /\ Len(prog) = 2
  /\ prog[1].src = "defer!"
  /\ prog[2].src = "defer!"
  /\ pc["kw"] = "left"
  /\ log["kw"] = <<2, 1>>

\* C4: text! of n string literals is the literals joined with one newline between
\* neighbours: n - 1 characters are added to those of the literals, the result
\* begins with the first literal and ends with the last; text!() = "",
\* text!("a") = "a", text!("a" "b") = "a\nb", text!("a" "b" "c") = "a\nb\nc".
C4_TextJoinsWithNewlines ==
  tpc = "evaluated" =>
    /\ out = JoinNewline(lits)
    /\ Len(out) = TotalLen(lits) + (IF lits = <<>> THEN 0 ELSE Len(lits) - 1)
    /\ lits # <<>> => /\ IsPrefix(lits[1], out)
                      /\ SubSeq(out, Len(out) - Len(lits[Len(lits)]) + 1, Len(out))
                           = lits[Len(lits)]
    /\ lits = <<>> => out = <<>>
    /\ lits = << <<"a">> >> => out = <<"a">>
    /\ lits = << <<"a">>, <<"b">> >> => out = <<"a", "\n", "b">>
    /\ lits = << <<"a">>, <<"b">>, <<"c">> >> => out = <<"a", "\n", "b", "\n", "c">>

\* text!("a" "b" "c") has been evaluated.
C4_Witness ==
  /\ tpc = "evaluated"
  /\ lits = << <<"a">>, <<"b">>, <<"c">> >>
  /\ out = <<"a", "\n", "b", "\n", "c">>

\* C5: between statements the strong count is 1 plus the number of clones handed
\* to keep! (a clone made in a bare statement is gone when the statement is over,
\* a kept one is not, whatever is kept after it); no kept clone is destroyed
\* before control begins to leave the block; the count is 1 again when the block
\* has been left.
C5_KeepDelaysDrop ==
  \A s \in Scopes :
    /\ pc[s] = "body" => strong[s] = 1 + KeptClones(s)
    /\ exitpath[s] = "none" => strong[s] >= 1 + KeptClones(s)
    /\ pc[s] = "left" => strong[s] = 1

\* keep!(Rc::clone(&rc)), then a bare Rc::clone(&rc);, then another keep! (of a
\* guard): the count is 2.
C5_Witness ==
  /\ Len(prog) = 3
  /\ prog[1] = SrcKeepClone
  /\ prog[2] = SrcClone
  /\ prog[3].src = "defer!"
  /\ pc["kw"] = "body"
  /\ strong["kw"] = 2

\* C6: a closure that fails in its invocation at teardown is not caught, converted
\* or retried: from then on a panic is propagating (or the process has aborted),
\* the block is left by unwinding, and the closure was invoked once.
C6_FailureSurfaces ==
  \A s \in Scopes : \A g \in failed[s] :
    /\ panicking[s] \/ pc[s] = "aborted"
    /\ pc[s] # "body"
    /\ calls[s][g] = 1

\* A block holding only a failing deferred action has been left, with the failure.
C6_Witness ==
  /\ prog = <<SrcDefer(Closure(1, TRUE))>>
  /\ how = "fallthrough"
  /\ pc["kw"] = "left"
  /\ panicking["kw"]
  /\ failed["kw"] = {1}

\* C7: however the block is left (closing brace, return, unwinding), when it has
\* been left every guard created in it has fired: its slot is empty and its
\* closure has been invoked.
C7_FiresOnEveryExitPath ==
  \A s \in Scopes :
    pc[s] = "left" =>
      /\ exitpath[s] \in {"fallthrough", "return", "unwind"}
      /\ \A g \in DOMAIN guards[s] :
           guards[s][g].deferred = None /\ calls[s][g] = 1 /\ Changed(s, g)

\* A block with two guards has been left by a panic of its body.
C7_Witness ==
  /\ how = "unwind"
  /\ pc["kw"] = "left"
  /\ exitpath["kw"] = "unwind"
  /\ Cardinality(DOMAIN guards["kw"]) = 2
  /\ \A g \in DOMAIN guards["kw"] : calls["kw"][g] = 1

\* C8: a block and the same block with each defer! { b } written as
\* let _defer = deferred! { b } show the same events in the same order: what the
\* second has shown is always a beginning of what the first showed, and all of it
\* when the second is over; markers and strong count agree as well.
C8_DeferIsLetDeferred ==
  /\ IsPrefix(trace["ctor"], trace["kw"])
  /\ Done("ctor") =>
       /\ trace["ctor"] = trace["kw"]
       /\ log["ctor"] = log["kw"]
       /\ pc["ctor"] = pc["kw"]
       /\ strong["ctor"] = strong["kw"]

\* Both blocks are over, the first one used defer! and a closure ran.
C8_Witness ==
  /\ Done("ctor")
  /\ \E i \in 1..Len(prog) : prog[i].src = "defer!"
  /\ log["ctor"] # <<>>
  /\ Len(trace["ctor"]) > 3

\* C9: the slot of a guard holds a closure or nothing; a guard is created holding
\* one; a slot changes only from holding its closure to holding nothing, only in
\* Drop::drop of that guard, and never while control has not begun to leave the
\* block; guards are not removed.
C9_ArmedToFiredOnly ==
  [][\A s \in Scopes :
       /\ \A g \in DOMAIN guards'[s] :
            /\ guards'[s][g].deferred.tag \in {"Some", "None"}
            /\ g \notin DOMAIN guards[s] => guards'[s][g].deferred.tag = "Some"
       /\ \A g \in DOMAIN guards[s] :
            /\ g \in DOMAIN guards'[s]
            /\ guards'[s][g] # guards[s][g] =>
                 /\ guards[s][g].deferred.tag = "Some"
                 /\ guards'[s][g].deferred = None
                 /\ pc[s] = "drop"
                 /\ cur[s] = [ty |-> "Defer", id |-> g]
                 /\ exitpath[s] # "none"]_vars

\* During the exit of a block one guard has fired and another is still armed.
C9_Witness ==
  /\ pc["kw"] = "exit"
  /\ \E g \in DOMAIN guards["kw"] : guards["kw"][g].deferred = None
  /\ \E g \in DOMAIN guards["kw"] : guards["kw"][g].deferred.tag = "Some"

\* C10: while the closure of a guard is executing the slot of the guard is already
\* empty; a guard whose closure failed stays empty, and a later Drop::drop of it
\* finds nothing in the slot and invokes nothing.
C10_TakeBeforeCall ==
  \A s \in Scopes :
    /\ pc[s] = "action" =>
         /\ guards[s][cur[s].id].deferred = None
         /\ taken[s].tag = "Some"
    /\ \A g \in failed[s] :
         /\ guards[s][g].deferred = None
         /\ calls[s][g] = 1
         /\ (pc[s] = "taken" /\ cur[s].id = g) => taken[s] = None

\* Drop::drop has been entered a second time on a guard whose closure failed.
C10_Witness ==
  \E g \in failed["kw"] :
    /\ teardowns["kw"][g] = 2
    /\ pc["kw"] = "taken"
    /\ cur["kw"].id = g
    /\ taken["kw"] = None

=============================================================================
